---- MODULE Spec2Model ----
(***************************************************************************)
(* State-machine model of the SecretVoting contract                        *)
(* (fhevm-hardhat-template/contracts/SecretVoting.sol).                    *)
(*                                                                         *)
(* Every external function is one action.  A call that reverts leaves the  *)
(* contract storage as it was (EVM revert) and only records the revert     *)
(* reason in `last`.  Encrypted values are modelled by their handle and    *)
(* the plaintext they encrypt; the FHE library calls are modelled by the   *)
(* capability interface they implement: arithmetic on the plaintext, a     *)
(* fresh handle for every result, and an access-control list of            *)
(* (handle, account) pairs.                                                *)
(***************************************************************************)
EXTENDS Integers, Sequences, FiniteSets, TLC

\* ------------------------------------------------------------------ bounds
\* proposal ids 0 .. MaxProposals-1 have storage in the model
MaxProposals == 2
\* the specification Spec creates at most MaxCreated proposals and calls
\* the contract with the ids below MaxCreated
MaxCreated == 1
\* block.timestamp ranges over 1 .. MaxTime
MaxTime == 3

\* ------------------------------------------------------- program constants
minOptionCount == 2
maxOptionCount == 10
\* 365 days, in seconds
maxDuration == 31536000
\* euint8 / uint8 values are 0 .. 255
Uint8Modulus == 256

PUBLIC_AFTER_END == 0
OWNER_ONLY == 1
QUALIFIED_ONLY == 2

\* ---------------------------------------------------------------- accounts
Deployer == "deployer"
Alice == "alice"
Bob == "bob"
\* address(0), the owner field of a proposal that was never stored
ZeroAddress == "0x0"
\* address(this), the contract itself as an ACL subject
This == "this"

Accounts == {Deployer, Alice, Bob}

\* ------------------------------------------------------------ input domains
\* proposal ids passed to the calls; an id >= proposalCount names a proposal
\* that was not created (yet)
Ids == 0 .. MaxProposals - 1
CallIds == 0 .. MaxCreated - 1
\* createProposal is called with these argument tuples: the accepted corners
\* (optionCount 2 and 10, duration 1 and 365 days, minQuorum 1 and 2, every
\* strategy) and one rejected call per require
CreateCall(optionCount, duration, strategy, minQuorum) ==
    [optionCount |-> optionCount, duration |-> duration,
     strategy |-> strategy, minQuorum |-> minQuorum]

CreateInputs ==
    {CreateCall(minOptionCount, 1, PUBLIC_AFTER_END, 1),
     CreateCall(3, 1, OWNER_ONLY, 2),
     CreateCall(3, 1, QUALIFIED_ONLY, 1),
     CreateCall(maxOptionCount, maxDuration, PUBLIC_AFTER_END, 1),
     CreateCall(minOptionCount - 1, 1, PUBLIC_AFTER_END, 1),
     CreateCall(maxOptionCount + 1, 1, PUBLIC_AFTER_END, 1),
     CreateCall(minOptionCount, 0, PUBLIC_AFTER_END, 1),
     CreateCall(minOptionCount, maxDuration + 1, PUBLIC_AFTER_END, 1),
     CreateCall(minOptionCount, 1, PUBLIC_AFTER_END, 0)}

\* plaintexts of the encrypted choice a voter submits (any 8-bit value)
Choices == {0, 1, Uint8Modulus - 1}
Creators == {Deployer, Alice}
Voters == {Alice, Bob}
Finalizers == {Bob}
Granters == {Deployer, Bob}
GrantTargets == {Bob}

\* ------------------------------------------------------------------- state
VARIABLES
    now,              \* block.timestamp
    owner,            \* address public owner
    administrators,   \* mapping(address => bool)
    proposers,        \* mapping(address => bool)
    proposalCount,    \* uint256 public proposalCount
    proposals,        \* mapping(uint256 => Proposal)
    proposalResults,  \* mapping(uint256 => ProposalResults)
    hasVoted,         \* mapping(uint256 => mapping(address => ebool))
    hasVotedClear,    \* mapping(uint256 => mapping(address => bool))
    acl,              \* persistent decrypt permissions [h, a] on stored handles
    publicDecrypt,    \* handles marked publicly decryptable
    transientAcl,     \* permissions valid inside the last transaction only
    cast,             \* history: cast[p][c] = accepted votes on p encoding c
    granted,          \* history: granted[p] = targets of the successful
                      \* grantDecryptionPermission calls for id p
    last,             \* the last call and how it ended
    enabled,          \* useFhevm: params.enabled
    provider,         \* useFhevm: params.provider
    chainId,          \* useFhevm: params.chainId
    instance,         \* useFhevm: state `instance`, named by the provider
                      \* it was created for
    fhevmStatus,      \* useFhevm: state `status`
    fhevmError,       \* useFhevm: state `error`
    abortControllerRef, \* useFhevm: abortControllerRef.current
    isCreatingRef,    \* useFhevm: isCreatingRef.current
    pending           \* the provider of the createFhevmInstance call that
                      \* createInstance is awaiting, if any

storageVars == <<owner, administrators, proposers, proposalCount, proposals,
                 proposalResults, hasVoted, hasVotedClear>>
permVars == <<acl, publicDecrypt>>
contractVars == <<now, owner, administrators, proposers, proposalCount, proposals,
                  proposalResults, hasVoted, hasVotedClear, acl, publicDecrypt,
                  transientAcl, cast, granted, last>>
hookVars == <<enabled, provider, chainId, instance, fhevmStatus, fhevmError,
              abortControllerRef, isCreatingRef, pending>>
vars == <<contractVars, hookVars>>

OK == "ok"

\* ----------------------------------------------------- encrypted values
\* A handle names one ciphertext.  kind: "opt" (per-option counter), "tot"
\* (total), "hv" (encrypted has-voted flag), "null" (uninitialised storage).
Handle(kind, pid, idx, ver, who) ==
    [kind |-> kind, pid |-> pid, idx |-> idx, ver |-> ver, who |-> who]

NullHandle == Handle("null", 0, 0, 0, "")

\* an encrypted value: its handle and the plaintext it encrypts
Enc(h, val) == [h |-> h, val |-> val]

\* a storage slot of type euint32 / ebool that was never written
Uninit == Enc(NullHandle, 0)

\* FHE.asEuint8(i)
FHE_asEuint8(i) == i % Uint8Modulus

\* FHE.asEuint32(v)
FHE_asEuint32(v) == v

\* FHE.eq on plaintexts
FHE_eq(a, b) == a = b

\* FHE.select on plaintexts
FHE_select(c, x, y) == IF c THEN x ELSE y

\* FHE.add on euint32 plaintexts.  The sum wraps at 2^32, which a counter
\* incremented once per accepted vote cannot reach with the voters modelled
\* (at most Cardinality(Accounts) votes per proposal), so no wrap is taken.
FHE_add(a, b) == a + b

\* FHE.allow / FHE.allowThis of every handle in hs to account a.  The
\* contract tests no condition before or after these calls, and they are
\* modelled as always succeeding, also on a handle that was never written;
\* the library that implements them is not part of the repository.
Allow(perms, hs, a) == perms \cup {[h |-> h, a |-> a] : h \in hs}

\* The permissions on the handles in hs are dropped from the model when the
\* storage slots that held them are overwritten: FHE.add returns a fresh
\* handle that carries none of its operands' permissions, and no function
\* of the contract returns an overwritten handle again.
Superseded(perms, hs) == {e \in perms : e.h \notin hs}

\* ------------------------------------------------- frontend hook values
\* the value `undefined` of a parameter or of a piece of hook state
Undefined == "undefined"
\* a chainId that `!chainId` takes as not set
NoChainId == 0
\* the wallet providers and chain ids the page passes to useFhevm
Providers == {"providerA", "providerB"}
ChainIds == {1, 2}

\* --------------------------------------------------------------- storage
\* the zero value of struct Proposal
ZeroProposal ==
    [title |-> "", description |-> "", startTime |-> 0, endTime |-> 0,
     optionCount |-> 0, finalized |-> FALSE, owner |-> ZeroAddress,
     strategy |-> PUBLIC_AFTER_END, minQuorum |-> 0]

\* the zero value of struct ProposalResults
ZeroResults == [optionVotes |-> <<>>, totalVotes |-> Uninit]

\* handles of the counters currently stored for proposal p, as the loops
\* `for (i = 0; i < proposal.optionCount; i++) results.optionVotes[i]` and
\* `results.totalVotes` visit them
OptionHandles(p) ==
    {proposalResults[p].optionVotes[i + 1].h : i \in 0 .. proposals[p].optionCount - 1}

TallyHandles(p) == OptionHandles(p) \cup {proposalResults[p].totalVotes.h}

Init ==
    /\ now = 1
    /\ owner = Deployer
    /\ administrators = [a \in Accounts |-> a = Deployer]
    /\ proposers = [a \in Accounts |-> a = Deployer]
    /\ proposalCount = 0
    /\ proposals = [p \in Ids |-> ZeroProposal]
    /\ proposalResults = [p \in Ids |-> ZeroResults]
    /\ hasVoted = [p \in Ids |-> [a \in Accounts |-> Uninit]]
    /\ hasVotedClear = [p \in Ids |-> [a \in Accounts |-> FALSE]]
    /\ acl = {}
    /\ publicDecrypt = {}
    /\ transientAcl = {}
    /\ cast = [p \in Ids |-> [c \in Choices |-> 0]]
    /\ granted = [p \in Ids |-> {}]
    /\ last = [op |-> "constructor", err |-> OK]
    /\ enabled = FALSE
    /\ provider = Undefined
    /\ chainId = NoChainId
    /\ instance = Undefined
    /\ fhevmStatus = "idle"
    /\ fhevmError = Undefined
    /\ abortControllerRef = "null"
    /\ isCreatingRef = FALSE
    /\ pending = Undefined

\* a call that reverts: storage and permissions as before
Revert(op, err) ==
    /\ last' = [op |-> op, err |-> err]
    /\ transientAcl' = {}
    /\ UNCHANGED <<now, storageVars, permVars, cast, granted>>

\* ------------------------------------------------------------ modifiers
\* modifier onlyProposer (declared by the contract, applied to no function)
onlyProposer(sender) == proposers[sender] \/ administrators[sender] \/ sender = owner

\* ------------------------------------------------------- createProposal
\* mutant: the upper bound on optionCount is exclusive
createProposalRevert_StrictMax(optionCount, duration, minQuorum) ==
    IF ~(optionCount >= minOptionCount /\ optionCount < maxOptionCount)
    THEN "Invalid option count"
    ELSE IF ~(duration > 0 /\ duration <= maxDuration)
    THEN "Invalid duration"
    ELSE IF ~(minQuorum > 0)
    THEN "Invalid quorum"
    ELSE OK

createProposalRevert(optionCount, duration, minQuorum) ==
    IF ~(optionCount >= minOptionCount /\ optionCount <= maxOptionCount)
    THEN "Invalid option count"
    ELSE IF ~(duration > 0 /\ duration <= maxDuration)
    THEN "Invalid duration"
    ELSE IF ~(minQuorum > 0)
    THEN "Invalid quorum"
    ELSE OK

\* mutant: endTime is the duration, not startTime + duration
storedProposal_EndIsDuration(sender, startTime, duration, optionCount, strategy, minQuorum) ==
    [title |-> "t", description |-> "d",
     startTime |-> startTime, endTime |-> duration,
     optionCount |-> optionCount, finalized |-> FALSE,
     owner |-> sender, strategy |-> strategy,
     minQuorum |-> minQuorum]

\* the struct `Proposal({...})` the call stores, with endTime = startTime +
\* duration
storedProposal(sender, startTime, duration, optionCount, strategy, minQuorum) ==
    [title |-> "t", description |-> "d",
     startTime |-> startTime, endTime |-> startTime + duration,
     optionCount |-> optionCount, finalized |-> FALSE,
     owner |-> sender, strategy |-> strategy,
     minQuorum |-> minQuorum]

\* mutant: the counter is not incremented
postIncrement_Same(count) == count

\* proposalCount after `proposalCount++`
postIncrement(count) == count + 1

createProposal(sender, optionCount, duration, strategy, minQuorum) ==
    LET err == createProposalRevert(optionCount, duration, minQuorum)
        proposalId == proposalCount
        startTime == now
        zeros == [i \in 1 .. optionCount |->
                     Enc(Handle("opt", proposalId, i - 1, 0, ""), FHE_asEuint32(0))]
        total == Enc(Handle("tot", proposalId, 0, 0, ""), FHE_asEuint32(0))
    IN  IF err # OK
        THEN Revert("createProposal", err)
        ELSE /\ proposalCount' = postIncrement(proposalCount)
             /\ proposals' = [proposals EXCEPT ![proposalId] =
                    storedProposal(sender, startTime, duration, optionCount,
                                   strategy, minQuorum)]
             /\ proposalResults' = [proposalResults EXCEPT ![proposalId] =
                    [optionVotes |-> proposalResults[proposalId].optionVotes \o zeros,
                     totalVotes |-> total]]
             /\ acl' = Allow(acl, {zeros[i].h : i \in 1 .. optionCount} \cup {total.h}, This)
             /\ transientAcl' = {}
             /\ last' = [op |-> "createProposal", err |-> OK]
             /\ UNCHANGED <<now, owner, administrators, proposers, hasVoted,
                            hasVotedClear, publicDecrypt, cast, granted>>

\* ------------------------------------------------------------------ vote
\* mutant: the clear-text double-vote check is missing
requireVote_NoGuard(timestamp, proposal, voted, proofValid) ==
    IF ~(timestamp >= proposal.startTime) THEN "Voting not started"
    ELSE IF ~(timestamp <= proposal.endTime) THEN "Voting ended"
    ELSE IF proposal.finalized THEN "Proposal finalized"
    ELSE IF ~proofValid THEN "ProofVerificationFailed"
    ELSE OK

\* mutant: the end of the voting window is not checked
requireVote_NoEnd(timestamp, proposal, voted, proofValid) ==
    IF ~(timestamp >= proposal.startTime) THEN "Voting not started"
    ELSE IF proposal.finalized THEN "Proposal finalized"
    ELSE IF voted THEN "Already voted"
    ELSE IF ~proofValid THEN "ProofVerificationFailed"
    ELSE OK

\* mutant: the input proof is not verified
requireVote_NoProof(timestamp, proposal, voted, proofValid) ==
    IF ~(timestamp >= proposal.startTime) THEN "Voting not started"
    ELSE IF ~(timestamp <= proposal.endTime) THEN "Voting ended"
    ELSE IF proposal.finalized THEN "Proposal finalized"
    ELSE IF voted THEN "Already voted"
    ELSE OK

\* mutant: the input proof is verified before the vote guard is read
requireVote_ProofFirst(timestamp, proposal, voted, proofValid) ==
    IF ~(timestamp >= proposal.startTime) THEN "Voting not started"
    ELSE IF ~(timestamp <= proposal.endTime) THEN "Voting ended"
    ELSE IF proposal.finalized THEN "Proposal finalized"
    ELSE IF ~proofValid THEN "ProofVerificationFailed"
    ELSE IF voted THEN "Already voted"
    ELSE OK

\* mutant: only the start of the window is checked
requireVote_StartOnly(timestamp, proposal, voted, proofValid) ==
    IF ~(timestamp >= proposal.startTime) THEN "Voting not started"
    ELSE IF voted THEN "Already voted"
    ELSE IF ~proofValid THEN "ProofVerificationFailed"
    ELSE OK

\* the requires of vote and the proof check of FHE.fromExternal, in the
\* order the function evaluates them, at block.timestamp = timestamp for a
\* caller whose hasVotedClear flag is `voted`
requireVote(timestamp, proposal, voted, proofValid) ==
    IF ~(timestamp >= proposal.startTime) THEN "Voting not started"
    ELSE IF ~(timestamp <= proposal.endTime) THEN "Voting ended"
    ELSE IF proposal.finalized THEN "Proposal finalized"
    ELSE IF voted THEN "Already voted"
    ELSE IF ~proofValid THEN "ProofVerificationFailed"
    ELSE OK

\* mutant: the guard flag of any proposal blocks the voter
voteRevert_AnyProposal(proposalId, sender, proofValid) ==
    requireVote(now, proposals[proposalId],
                \E p \in Ids : hasVotedClear[p][sender], proofValid)

voteRevert(proposalId, sender, proofValid) ==
    requireVote(now, proposals[proposalId], hasVotedClear[proposalId][sender], proofValid)

\* mutant: the comparison is against i + 1 instead of i
increment_OffByOne(option, i) ==
    FHE_select(FHE_eq(option, FHE_asEuint8(i + 1)), FHE_asEuint32(1), FHE_asEuint32(0))

\* the increment the loop adds to counter i for the imported choice
increment(option, i) ==
    FHE_select(FHE_eq(option, FHE_asEuint8(i)), FHE_asEuint32(1), FHE_asEuint32(0))

\* results.optionVotes after the loop over i < proposal.optionCount
votedOptionVotes(proposalId, option) ==
    LET old == proposalResults[proposalId].optionVotes
    IN  [i \in 1 .. proposals[proposalId].optionCount |->
            Enc(Handle("opt", proposalId, i - 1, old[i].h.ver + 1, ""),
                FHE_add(old[i].val, increment(option, i - 1)))]

\* results.totalVotes after the vote
votedTotalVotes(proposalId) ==
    LET old == proposalResults[proposalId].totalVotes
    IN  Enc(Handle("tot", proposalId, 0, old.h.ver + 1, ""),
            FHE_add(old.val, FHE_asEuint32(1)))

\* mutant: a QUALIFIED_ONLY vote gives the voter a persistent permission
votePersistent_Qualified(proposal, perms, handles, sender) ==
    IF proposal.strategy = OWNER_ONLY
    THEN Allow(perms, handles, proposal.owner)
    ELSE IF proposal.strategy = QUALIFIED_ONLY
    THEN Allow(perms, handles, sender)
    ELSE perms

\* the persistent permissions after the strategy branch of vote:
\* OWNER_ONLY calls FHE.allow(counter, proposal.owner) on every counter and
\* the total
votePersistent(proposal, perms, handles, sender) ==
    IF proposal.strategy = OWNER_ONLY
    THEN Allow(perms, handles, proposal.owner)
    ELSE perms

\* mutant: the transient permission on the total is missing
voteTransient_NoTotal(proposal, optionHandles, totalHandle, sender) ==
    IF proposal.strategy = QUALIFIED_ONLY
    THEN Allow({}, optionHandles, sender)
    ELSE {}

\* the transient permissions of the strategy branch of vote:
\* QUALIFIED_ONLY calls FHE.allowTransient(counter, msg.sender) on every
\* counter and the total
voteTransient(proposal, optionHandles, totalHandle, sender) ==
    IF proposal.strategy = QUALIFIED_ONLY
    THEN Allow({}, optionHandles \cup {totalHandle}, sender)
    ELSE {}

vote(sender, proposalId, option, proofValid) ==
    LET err == voteRevert(proposalId, sender, proofValid)
        proposal == proposals[proposalId]
        newOptions == votedOptionVotes(proposalId, option)
        newTotal == votedTotalVotes(proposalId)
        newHandles == {newOptions[i].h : i \in 1 .. proposal.optionCount} \cup {newTotal.h}
        flag == Enc(Handle("hv", proposalId, 0, 0, sender), 1)
        kept == Superseded(acl, TallyHandles(proposalId) \ {NullHandle})
        allowedThis == Allow(Allow(kept, newHandles, This), {flag.h}, sender)
    IN  IF err # OK
        THEN Revert("vote", err)
        ELSE /\ proposalResults' = [proposalResults EXCEPT ![proposalId] =
                    [optionVotes |-> newOptions, totalVotes |-> newTotal]]
             /\ hasVoted' = [hasVoted EXCEPT ![proposalId][sender] = flag]
             /\ hasVotedClear' = [hasVotedClear EXCEPT ![proposalId][sender] = TRUE]
             /\ acl' = votePersistent(proposal, allowedThis, newHandles, sender)
             /\ transientAcl' = voteTransient(proposal,
                                    {newOptions[i].h : i \in 1 .. proposal.optionCount},
                                    newTotal.h, sender)
             /\ cast' = [cast EXCEPT ![proposalId][option] = @ + 1]
             /\ last' = [op |-> "vote", err |-> OK]
             /\ UNCHANGED <<now, owner, administrators, proposers, proposalCount,
                            proposals, publicDecrypt, granted>>

\* ------------------------------------------------------ finalizeProposal
\* mutant: the finalized flag is not checked
finalizeProposalRevert_NoFlag(proposalId) ==
    IF ~(now > proposals[proposalId].endTime) THEN "Voting not ended" ELSE OK

\* mutant: finalize is accepted from endTime on
requireFinalize_AtEnd(timestamp, proposal) ==
    IF ~(timestamp >= proposal.endTime) THEN "Voting not ended"
    ELSE IF proposal.finalized THEN "Already finalized"
    ELSE OK

\* the requires of finalizeProposal at block.timestamp = timestamp
requireFinalize(timestamp, proposal) ==
    IF ~(timestamp > proposal.endTime) THEN "Voting not ended"
    ELSE IF proposal.finalized THEN "Already finalized"
    ELSE OK

\* mutant: finalize needs minQuorum accepted votes
finalizeProposalRevert_Quorum(proposalId) ==
    IF requireFinalize(now, proposals[proposalId]) # OK
    THEN requireFinalize(now, proposals[proposalId])
    ELSE IF proposalResults[proposalId].totalVotes.val < proposals[proposalId].minQuorum
    THEN "Quorum not reached"
    ELSE OK

finalizeProposalRevert(proposalId) == requireFinalize(now, proposals[proposalId])

\* mutant: the total is not marked
finalizePublic_NoTotal(proposalId) ==
    IF proposals[proposalId].strategy = PUBLIC_AFTER_END
    THEN publicDecrypt \cup OptionHandles(proposalId)
    ELSE publicDecrypt

\* mutant: every strategy marks the counters and the total
finalizePublic_Always(proposalId) == publicDecrypt \cup TallyHandles(proposalId)

\* the publicly decryptable handles after the strategy branch of
\* finalizeProposal: PUBLIC_AFTER_END calls FHE.makePubliclyDecryptable on
\* every counter and the total
finalizePublic(proposalId) ==
    IF proposals[proposalId].strategy = PUBLIC_AFTER_END
    THEN publicDecrypt \cup TallyHandles(proposalId)
    ELSE publicDecrypt

\* the persistent permissions after the strategy branch of
\* finalizeProposal: OWNER_ONLY calls FHE.allow(counter, owner) with the
\* contract's `owner`
finalizeAllowed(proposalId) ==
    IF proposals[proposalId].strategy = OWNER_ONLY
    THEN Allow(acl, TallyHandles(proposalId), owner)
    ELSE acl

\* mutant: finalizing also closes the window at the current time
finalizedProposal_Closes(proposal) ==
    [proposal EXCEPT !.finalized = TRUE, !.endTime = now]

\* the stored proposal after `proposal.finalized = true`
finalizedProposal(proposal) == [proposal EXCEPT !.finalized = TRUE]

finalizeProposal(sender, proposalId) ==
    LET err == finalizeProposalRevert(proposalId)
        proposal == proposals[proposalId]
    IN  IF err # OK
        THEN Revert("finalizeProposal", err)
        ELSE /\ proposals' = [proposals EXCEPT ![proposalId] = finalizedProposal(@)]
             /\ publicDecrypt' = finalizePublic(proposalId)
             /\ acl' = finalizeAllowed(proposalId)
             /\ transientAcl' = {}
             /\ last' = [op |-> "finalizeProposal", err |-> OK]
             /\ UNCHANGED <<now, owner, administrators, proposers, proposalCount,
                            proposalResults, hasVoted, hasVotedClear, cast, granted>>

\* --------------------------------------------- grantDecryptionPermission
\* mutant: the caller is not checked
grantDecryptionPermissionRevert_Open(proposalId, sender) == OK

grantDecryptionPermissionRevert(proposalId, sender) ==
    IF ~(sender = proposals[proposalId].owner \/ sender = owner \/ administrators[sender])
    THEN "Not authorized"
    ELSE OK

grantDecryptionPermission(sender, proposalId, account) ==
    LET err == grantDecryptionPermissionRevert(proposalId, sender)
    IN  IF err # OK
        THEN Revert("grantDecryptionPermission", err)
        ELSE /\ acl' = Allow(acl, TallyHandles(proposalId), account)
             /\ transientAcl' = {}
             /\ granted' = [granted EXCEPT ![proposalId] = @ \cup {account}]
             /\ last' = [op |-> "grantDecryptionPermission", err |-> OK]
             /\ UNCHANGED <<now, storageVars, publicDecrypt, cast>>

\* ------------------------------------------------------- role management
\* modifier onlyAdministrator
onlyAdministrator(sender) == administrators[sender] \/ sender = owner

\* mutant: administrators pass as well
onlyOwner_Administrator(sender) == administrators[sender] \/ sender = owner

\* modifier onlyOwner
onlyOwner(sender) == sender = owner

setProposer(sender, account, status) ==
    IF ~onlyAdministrator(sender)
    THEN Revert("setProposer", "Not administrator")
    ELSE /\ proposers' = [proposers EXCEPT ![account] = status]
         /\ transientAcl' = {}
         /\ last' = [op |-> "setProposer", err |-> OK]
         /\ UNCHANGED <<now, owner, administrators, proposalCount, proposals,
                        proposalResults, hasVoted, hasVotedClear, permVars,
                        cast, granted>>

setAdministrator(sender, account, status) ==
    IF ~onlyOwner(sender)
    THEN Revert("setAdministrator", "Not owner")
    ELSE /\ administrators' = [administrators EXCEPT ![account] = status]
         /\ transientAcl' = {}
         /\ last' = [op |-> "setAdministrator", err |-> OK]
         /\ UNCHANGED <<now, owner, proposers, proposalCount, proposals,
                        proposalResults, hasVoted, hasVotedClear, permVars,
                        cast, granted>>

\* -------------------------------------------------------------- getters
\* the generated getter of `mapping(uint256 => Proposal) public proposals`:
\* it returns the stored struct, the zero struct for an id never written
getProposal(proposalId) ==
    /\ last' = [op |-> "proposals", err |-> OK]
    /\ transientAcl' = {}
    /\ UNCHANGED <<now, storageVars, permVars, cast, granted>>

\* ------------------------------------------------------------- frontend
\* mutant: a proposal counts as ended from endTime on
getProposalStatus_EndInclusive(startTime, endTime, finalized, timestamp) ==
    IF finalized THEN "finalized"
    ELSE IF timestamp < startTime THEN "upcoming"
    ELSE IF timestamp >= endTime THEN "ended"
    ELSE "active"

\* getProposalStatus of the hook useSecretVoting; timestamp is the value of
\* `now` it reads from the clock, in seconds
getProposalStatus(startTime, endTime, finalized, timestamp) ==
    IF finalized THEN "finalized"
    ELSE IF timestamp < startTime THEN "upcoming"
    ELSE IF timestamp > endTime THEN "ended"
    ELSE "active"

\* ------------------------------------------------------------------ time
Tick ==
    /\ now < MaxTime
    /\ now' = now + 1
    /\ transientAcl' = {}
    /\ last' = [op |-> "tick", err |-> OK]
    /\ UNCHANGED <<storageVars, permVars, cast, granted>>

\* the next-state relation over given sets of callers and arguments
NextOver(maxCreated, ids, creators, createInputs, voters, choices, finalizers, granters, grantTargets) ==
    \/ \E sender \in creators, in \in createInputs :
          /\ \/ proposalCount < maxCreated
             \/ createProposalRevert(in.optionCount, in.duration, in.minQuorum) # OK
          /\ createProposal(sender, in.optionCount, in.duration, in.strategy, in.minQuorum)
          /\ UNCHANGED hookVars
    \/ \E sender \in voters, proposalId \in ids, option \in choices, proofValid \in BOOLEAN :
          vote(sender, proposalId, option, proofValid) /\ UNCHANGED hookVars
    \/ \E sender \in finalizers, proposalId \in ids :
          finalizeProposal(sender, proposalId) /\ UNCHANGED hookVars
    \/ \E sender \in granters, proposalId \in ids, account \in grantTargets :
          grantDecryptionPermission(sender, proposalId, account) /\ UNCHANGED hookVars
    \/ \E proposalId \in ids : getProposal(proposalId) /\ UNCHANGED hookVars
    \/ Tick /\ UNCHANGED hookVars

Next == NextOver(MaxCreated, CallIds, Creators, CreateInputs, Voters, Choices, Finalizers, Granters, GrantTargets)

Spec == Init /\ [][Next]_vars

\* Scenario A of the specification: one 3-option proposal that every account
\* may vote on
TallyInputs ==
    {CreateCall(3, 1, PUBLIC_AFTER_END, 1), CreateCall(3, 0, PUBLIC_AFTER_END, 1)}

NextTally == NextOver(MaxCreated, CallIds, {Deployer}, TallyInputs, Accounts, Choices, {Bob}, {Deployer}, {Bob})

SpecTally == Init /\ [][NextTally]_vars

\* The contract with its role management: Alice and Bob create the
\* proposals, one of each strategy, the deployer (global owner) changes
\* Bob's roles, and every account calls grantDecryptionPermission.
RoleInputs ==
    {CreateCall(minOptionCount, 1, PUBLIC_AFTER_END, 1),
     CreateCall(minOptionCount, 1, OWNER_ONLY, 1),
     CreateCall(minOptionCount, 1, QUALIFIED_ONLY, 1),
     CreateCall(minOptionCount, 0, PUBLIC_AFTER_END, 1)}

NextRoles ==
    \/ NextOver(MaxCreated, CallIds, {Alice, Bob}, RoleInputs, {Alice}, {0}, {Bob},
                Accounts, {Bob})
    \/ \E sender \in {Deployer, Bob}, status \in BOOLEAN :
          setProposer(sender, Bob, status) /\ UNCHANGED hookVars
    \/ \E sender \in {Deployer, Bob}, status \in BOOLEAN :
          setAdministrator(sender, Bob, status) /\ UNCHANGED hookVars

SpecRoles == Init /\ [][NextRoles]_vars

\* Several proposals: up to MaxProposals are created, by two accounts, and
\* every id with storage is called.
SeqInputs ==
    {CreateCall(minOptionCount, 1, PUBLIC_AFTER_END, 1),
     CreateCall(3, 2, OWNER_ONLY, 1),
     CreateCall(minOptionCount, 0, PUBLIC_AFTER_END, 1)}

NextSeq ==
    NextOver(MaxProposals, Ids, {Deployer, Alice}, SeqInputs, {Alice}, {0}, {Bob},
             {Deployer}, {Bob})

SpecSeq == Init /\ [][NextSeq]_vars

\* Every operation together: up to MaxProposals proposals by Alice, votes,
\* finalize and grants on every id, and the deployer changing Bob's roles.
AllInputs ==
    {CreateCall(minOptionCount, 1, QUALIFIED_ONLY, 1),
     CreateCall(minOptionCount, 0, QUALIFIED_ONLY, 1)}

NextAll ==
    \/ NextOver(MaxProposals, Ids, {Alice}, AllInputs, {Bob}, {1}, {Bob}, {Deployer},
                {Bob})
    \/ \E status \in BOOLEAN : setProposer(Deployer, Bob, status) /\ UNCHANGED hookVars
    \/ \E status \in BOOLEAN : setAdministrator(Deployer, Bob, status) /\ UNCHANGED hookVars

SpecAll == Init /\ [][NextAll]_vars

\* ============================================================== useFhevm
\* createInstance, called by the effect with the parameters of the current
\* render; controller is abortControllerRef.current as the effect cleanup
\* left it.  Past the guard it aborts the previous controller, installs a
\* new one, sets isCreatingRef and awaits createFhevmInstance.
createInstance(e, p, c, controller) ==
    IF ~e \/ p = Undefined \/ c = NoChainId \/ isCreatingRef
    THEN /\ abortControllerRef' = controller
         /\ UNCHANGED <<instance, fhevmStatus, fhevmError, isCreatingRef, pending>>
    ELSE /\ abortControllerRef' = "active"
         /\ isCreatingRef' = TRUE
         /\ fhevmError' = Undefined
         /\ fhevmStatus' = "sdk-loading"
         /\ pending' = p
         /\ UNCHANGED instance

\* the effect of useFhevm for the parameters e, p, c: the cleanup of the
\* previous run aborts the controller, then the body runs, all in one
\* synchronous flush
effect(e, p, c) ==
    LET controller == IF abortControllerRef = "null" THEN "null" ELSE "aborted"
    IN  /\ enabled' = e
        /\ provider' = p
        /\ chainId' = c
        /\ IF e /\ p # Undefined /\ c # NoChainId
           THEN createInstance(e, p, c, controller)
           ELSE /\ instance' = Undefined
                /\ fhevmStatus' = "idle"
                /\ abortControllerRef' = controller
                /\ UNCHANGED <<fhevmError, isCreatingRef, pending>>
        /\ UNCHANGED contractVars

\* a render with a new value of enabled, provider or chainId
paramsChange(e, p, c) ==
    /\ <<e, p, c>> # <<enabled, provider, chainId>>
    /\ effect(e, p, c)

\* the effect runs again for the same enabled, provider and chainId: the
\* identity of createInstance changed with initialMockChains, or the
\* component was remounted
effectRerun == effect(enabled, provider, chainId)

\* the pending createFhevmInstance reports a status
onStatusChange(status) ==
    /\ pending # Undefined
    /\ fhevmStatus' = status
    /\ UNCHANGED <<contractVars, enabled, provider, chainId, instance, fhevmError,
                   abortControllerRef, isCreatingRef, pending>>

\* how a pending createFhevmInstance may end given its abort signal: it
\* resolves, or throws; FhevmAbortError is thrown only for an aborted signal
createFhevmInstanceOutcomes(signal) ==
    {"resolved", "failed"} \cup (IF signal = "aborted" THEN {"aborted"} ELSE {})

\* the pending createFhevmInstance resolves: the try block and finally
settleResolved ==
    /\ pending # Undefined
    /\ "resolved" \in createFhevmInstanceOutcomes(abortControllerRef)
    /\ instance' = pending
    /\ fhevmStatus' = "ready"
    /\ isCreatingRef' = FALSE
    /\ pending' = Undefined
    /\ UNCHANGED <<contractVars, enabled, provider, chainId, fhevmError, abortControllerRef>>

\* it throws FhevmAbortError: the first catch branch and finally
settleAborted ==
    /\ pending # Undefined
    /\ "aborted" \in createFhevmInstanceOutcomes(abortControllerRef)
    /\ fhevmStatus' = "idle"
    /\ isCreatingRef' = FALSE
    /\ pending' = Undefined
    /\ UNCHANGED <<contractVars, enabled, provider, chainId, instance, fhevmError,
                   abortControllerRef>>

\* it throws another error: the second catch branch and finally
settleFailed ==
    /\ pending # Undefined
    /\ "failed" \in createFhevmInstanceOutcomes(abortControllerRef)
    /\ fhevmError' = "error"
    /\ fhevmStatus' = "error"
    /\ isCreatingRef' = FALSE
    /\ pending' = Undefined
    /\ UNCHANGED <<contractVars, enabled, provider, chainId, instance, abortControllerRef>>

\* the statuses createFhevmInstance reports while it runs
ProgressStatuses == {"sdk-loading", "sdk-loaded", "sdk-initializing", "sdk-initialized", "creating"}

NextHook ==
    \/ \E e \in BOOLEAN, p \in Providers \cup {Undefined}, c \in ChainIds \cup {NoChainId} :
          paramsChange(e, p, c)
    \/ effectRerun
    \/ \E status \in ProgressStatuses : onStatusChange(status)
    \/ settleResolved
    \/ settleAborted
    \/ settleFailed

SpecHook == Init /\ [][NextHook]_vars

\* ================================================================ claims
\* what a call may not touch when it fails: storage, permissions, history
contractState == <<storageVars, permVars, cast, granted>>

Created(p) == p < proposalCount

RECURSIVE SumVotes(_)
\* the sum of the plaintexts of a sequence of encrypted counters
SumVotes(counters) ==
    IF counters = <<>> THEN 0
    ELSE Head(counters).val + SumVotes(Tail(counters))

\* number of voters whose guard flag is set for proposal p
VotersOf(p) == Cardinality({a \in Accounts : hasVotedClear[p][a]})

\* accepted votes on p that encoded option index i
CastFor(p, i) == IF i \in Choices THEN cast[p][i] ELSE 0

\* ------------------------------------------------------------------- C1
\* C1 (as claimed): in every reachable state, for every created proposal,
\* the decrypted total equals the sum of the decrypted per-option counters,
\* whatever 8-bit value each accepted vote encodes.
C1_TallyConsistent ==
    \A p \in Ids :
        Created(p) =>
            proposalResults[p].totalVotes.val = SumVotes(proposalResults[p].optionVotes)

\* ------------------------------------------------------------------- C2
\* C2 (as claimed): once a voter's guard flag is set for a proposal, every
\* later vote by that voter on that proposal fails with "Already voted" and
\* changes no counter, total or guard flag; the flag is never cleared.
C2_AlwaysAlreadyVoted ==
    [][\A a \in Voters, p \in Ids :
          hasVotedClear[p][a] =>
            /\ hasVotedClear'[p][a]
            /\ last'.op = "vote" =>
                  \A o \in Choices, pv \in BOOLEAN :
                      vote(a, p, o, pv) =>
                        /\ last'.err = "Already voted"
                        /\ UNCHANGED contractState]_vars

\* C2 (amended): once a voter's guard flag is set for a proposal it is never
\* cleared, and every later vote by that voter on that proposal fails and
\* changes no counter, total, guard flag or permission: with "Already voted"
\* while now <= endTime, with "Voting ended" once now > endTime.  So at most
\* one vote per (proposal, voter) ever succeeds.
C2_NoDoubleVote ==
    [][\A a \in Voters, p \in Ids :
          /\ hasVotedClear[p][a] =>
                /\ hasVotedClear'[p][a]
                /\ last'.op = "vote" =>
                      \A o \in Choices, pv \in BOOLEAN :
                          vote(a, p, o, pv) =>
                            /\ last'.err = IF now <= proposals[p].endTime
                                           THEN "Already voted" ELSE "Voting ended"
                            /\ UNCHANGED contractState
          /\ last' = [op |-> "vote", err |-> OK] =>
                \A o \in Choices, pv \in BOOLEAN :
                    vote(a, p, o, pv) =>
                        ~hasVotedClear[p][a] /\ hasVotedClear'[p][a]]_vars

\* a second vote was rejected as a double vote: the voter's flag is set,
\* the window is still open and the last call reverted with "Already voted"
C2_Witness ==
    /\ last = [op |-> "vote", err |-> "Already voted"]
    /\ \E p \in Ids, a \in Voters :
          /\ hasVotedClear[p][a]
          /\ now <= proposals[p].endTime
          /\ proposalResults[p].totalVotes.val = VotersOf(p)

\* ------------------------------------------------------------------- C3
\* C3: on every created proposal all of whose accepted votes encoded an
\* option index below optionCount, option counter i equals the number of
\* accepted votes that encoded i, and the total equals the number of
\* accepted votes (the number of voters whose guard flag is set).
C3_CorrectCounting ==
    \A p \in Ids :
        (Created(p) /\ \A c \in Choices : c >= proposals[p].optionCount => cast[p][c] = 0)
        =>  /\ Len(proposalResults[p].optionVotes) = proposals[p].optionCount
            /\ \A i \in 0 .. proposals[p].optionCount - 1 :
                  proposalResults[p].optionVotes[i + 1].val = CastFor(p, i)
            /\ proposalResults[p].totalVotes.val = VotersOf(p)
            /\ proposalResults[p].totalVotes.val = SumVotes(proposalResults[p].optionVotes)

\* the spec's Scenario A: choices 0, 1, 0 on a 3-option proposal give
\* total = 3, option[0] = 2, option[1] = 1, option[2] = 0
C3_Witness ==
    \E p \in Ids :
        /\ Created(p)
        /\ proposals[p].optionCount = 3
        /\ cast[p][0] = 2 /\ cast[p][1] = 1
        /\ VotersOf(p) = 3
        /\ proposalResults[p].totalVotes.val = 3
        /\ proposalResults[p].optionVotes[1].val = 2
        /\ proposalResults[p].optionVotes[2].val = 1
        /\ proposalResults[p].optionVotes[3].val = 0

\* ------------------------------------------------------------------- C4
\* C4 (as claimed): a vote on a created proposal whose encrypted choice is
\* an option index >= optionCount is rejected, and no option counter, total
\* or guard flag changes.
C4_OutOfRangeRejected ==
    [][last'.op = "vote" =>
         \A a \in Accounts, p \in Ids, o \in Choices :
            (Created(p) /\ o >= proposals[p].optionCount /\ vote(a, p, o, TRUE)) =>
                /\ last'.err # OK
                /\ UNCHANGED contractState]_vars

\* ------------------------------------------------------------------- C5
\* C5 (as claimed): createProposal called by an account that is neither the
\* owner, an administrator nor a proposer fails and creates no proposal.
C5_UnauthorizedCreateRejected ==
    [][last'.op = "createProposal" =>
         \A sender \in Accounts, in \in CreateInputs :
            (~onlyProposer(sender) /\
             createProposal(sender, in.optionCount, in.duration, in.strategy, in.minQuorum)) =>
                /\ last'.err # OK
                /\ UNCHANGED contractState]_vars

\* ------------------------------------------------------------------- C6
\* the parameter ranges the claim states, written out independently
ValidCreate(optionCount, duration, minQuorum) ==
    /\ 2 <= optionCount /\ optionCount <= 10
    /\ 0 < duration /\ duration <= 365 * 24 * 60 * 60
    /\ minQuorum >= 1

InvalidParameters == {"Invalid option count", "Invalid duration", "Invalid quorum"}

\* C6: createProposal succeeds exactly for 2 <= optionCount <= 10,
\* 0 < duration <= 365 days and minQuorum >= 1 (for any caller); a rejected
\* call reverts with an invalid-parameter reason, allocates no id and leaves
\* proposalCount, proposals, tallies, guard flags and permissions unchanged;
\* an accepted call allocates the next id.
C6_CreateValidation ==
    [][last'.op = "createProposal" =>
        \A in \in CreateInputs :
                (\E sender \in Accounts :
                    createProposal(sender, in.optionCount, in.duration, in.strategy,
                                   in.minQuorum)) =>
                    IF ValidCreate(in.optionCount, in.duration, in.minQuorum)
                    THEN /\ last'.err = OK
                         /\ proposalCount' = proposalCount + 1
                         /\ proposals'[proposalCount].optionCount = in.optionCount
                    ELSE /\ last'.err \in InvalidParameters
                         /\ UNCHANGED contractState]_vars

\* a proposal with the largest accepted optionCount and duration exists and
\* a later createProposal with minQuorum = 0 was rejected without touching it
C6_Witness ==
    /\ last = [op |-> "createProposal", err |-> "Invalid quorum"]
    /\ proposalCount = 1
    /\ proposals[0].optionCount = maxOptionCount
    /\ proposals[0].endTime = proposals[0].startTime + maxDuration
    /\ Len(proposalResults[0].optionVotes) = maxOptionCount

\* ------------------------------------------------------------------- C7
\* C7: a vote at a timestamp before startTime reverts with "Voting not
\* started" and one after endTime with "Voting ended", whatever the guard
\* flag and the proof; the reverted call changes no counter, no guard flag
\* and no permission.
C7_VoteWindow ==
    [][last'.op = "vote" =>
        \A p \in Ids :
            /\ \A t \in {proposals[p].startTime - 1, proposals[p].endTime + 1},
                  voted \in BOOLEAN, pv \in BOOLEAN :
                /\ t < proposals[p].startTime =>
                      requireVote(t, proposals[p], voted, pv) = "Voting not started"
                /\ t > proposals[p].endTime =>
                      requireVote(t, proposals[p], voted, pv) = "Voting ended"
            /\ (/\ now < proposals[p].startTime \/ now > proposals[p].endTime
                /\ \E a \in Accounts, o \in Choices, pv \in BOOLEAN : vote(a, p, o, pv)) =>
                          /\ last'.err = requireVote(now, proposals[p], FALSE, TRUE)
                          /\ last'.err \in {"Voting not started", "Voting ended"}
                          /\ UNCHANGED contractState]_vars

\* a vote on a created proposal was rejected after its endTime
C7_Witness ==
    /\ last = [op |-> "vote", err |-> "Voting ended"]
    /\ Created(0)
    /\ now > proposals[0].endTime
    /\ \E a \in Voters : ~hasVotedClear[0][a]

\* ------------------------------------------------------------------- C8
\* C8: finalizeProposal reverts with "Voting not ended" when now <= endTime
\* and with "Already finalized" when the proposal is finalized; a reverted
\* call changes neither the finalized flag nor any permission; a call that
\* succeeds finds finalized = false and sets it.  A created proposal that is
\* finalized stays finalized, so finalizeProposal succeeds at most once for
\* it and its disclosure action runs at most once.
C8_FinalizePreconditions ==
    [][/\ last'.op = "finalizeProposal" =>
            \A s \in Accounts, p \in Ids :
                finalizeProposal(s, p) =>
                    /\ now <= proposals[p].endTime => last'.err = "Voting not ended"
                    /\ (now > proposals[p].endTime /\ proposals[p].finalized) =>
                          last'.err = "Already finalized"
                    /\ last'.err # OK => UNCHANGED contractState
                    /\ last'.err = OK =>
                          /\ now > proposals[p].endTime
                          /\ ~proposals[p].finalized
                          /\ proposals'[p].finalized
       /\ \A p \in Ids :
            (Created(p) /\ proposals[p].finalized) => proposals'[p].finalized]_vars

\* a second finalizeProposal on a created, finalized proposal was rejected
C8_Witness ==
    /\ last = [op |-> "finalizeProposal", err |-> "Already finalized"]
    /\ Created(0)
    /\ proposals[0].finalized
    /\ now > proposals[0].endTime

\* ------------------------------------------------------------------- C9
\* C9 (as claimed): for every proposal id, once the stored finalized flag
\* is true it is true in every later state.
C9_FinalizedOneWay ==
    [][\A p \in Ids : proposals[p].finalized => proposals'[p].finalized]_vars

\* ------------------------------------------------------------------ C10
\* C10 (as claimed): vote, finalizeProposal, grantDecryptionPermission and
\* the proposal getter fail for an id >= proposalCount and change no state;
\* finalized is never set for an id that has not been created.
C10_UnknownIdRejected ==
    [][\A p \in Ids :
          ~Created(p) =>
            /\ (\/ last'.op = "vote" /\ \E a \in Accounts, o \in Choices, pv \in BOOLEAN :
                                            vote(a, p, o, pv)
                \/ last'.op = "finalizeProposal" /\ \E s \in Accounts : finalizeProposal(s, p)
                \/ last'.op = "grantDecryptionPermission" /\
                      \E s \in Accounts, t \in Accounts : grantDecryptionPermission(s, p, t)
                \/ last'.op = "proposals" /\ getProposal(p))
               => last'.err # OK /\ UNCHANGED contractState
            /\ ~proposals[p].finalized]_vars

\* ------------------------------------------------------------------ C11
\* the handles stored now in the optionCount option counters of p and in
\* its total
CurrentHandles(p) ==
    {proposalResults[p].optionVotes[i].h : i \in 1 .. proposals[p].optionCount}
        \cup {proposalResults[p].totalVotes.h}

\* account a holds a persistent permission on every current counter of p
\* and on its total
HoldsAll(p, a) == \A h \in CurrentHandles(p) : [h |-> h, a |-> a] \in acl

\* account a holds a persistent permission on some current counter of p or
\* on its total
HoldsSome(p, a) == \E h \in CurrentHandles(p) : [h |-> h, a |-> a] \in acl

\* C11: a successful finalizeProposal on a created PUBLIC_AFTER_END
\* proposal marks each of its optionCount option counters and its total
\* publicly decryptable; in every later state the proposal's counters and
\* total are marked, and no marking is ever removed.
C11_PublicAfterFinalize ==
    [][/\ \A h \in publicDecrypt : h \in publicDecrypt'
       /\ \A p \in Ids :
            (/\ p < proposalCount'
             /\ proposals'[p].strategy = PUBLIC_AFTER_END
             /\ proposals'[p].finalized) =>
                /\ Len(proposalResults'[p].optionVotes) = proposals'[p].optionCount
                /\ \A h \in CurrentHandles(p)' : h \in publicDecrypt'
                /\ proposals[p].finalized => CurrentHandles(p)' = CurrentHandles(p)]_vars

\* a PUBLIC_AFTER_END proposal with accepted votes was finalized, all its
\* counters are marked, and a later call has been made
C11_Witness ==
    /\ Created(0)
    /\ proposals[0].strategy = PUBLIC_AFTER_END
    /\ proposals[0].finalized
    /\ proposalResults[0].totalVotes.val = 2
    /\ Cardinality(CurrentHandles(0)) = proposals[0].optionCount + 1
    /\ CurrentHandles(0) \subseteq publicDecrypt
    /\ last.op = "vote"

\* ------------------------------------------------------------------ C12
\* C12 (as claimed): once a created OWNER_ONLY proposal is finalized, the
\* account that created it holds a persistent permission on every current
\* counter and on the total, and every other account that holds one on any
\* of them was the target of a grantDecryptionPermission for the proposal.
C12_OwnerOnlyFinalize ==
    \A p \in Ids :
        (Created(p) /\ proposals[p].strategy = OWNER_ONLY /\ proposals[p].finalized) =>
            /\ HoldsAll(p, proposals[p].owner)
            /\ \A a \in Accounts \ {proposals[p].owner} :
                  HoldsSome(p, a) => a \in granted[p]

\* ------------------------------------------------------------------ C13
\* C13 (as claimed): while a created OWNER_ONLY proposal is not finalized
\* and no grantDecryptionPermission has succeeded for it, no account holds a
\* persistent permission on any of its current counters or its total.
C13_OwnerOnlyNoGrantInVote ==
    \A p \in Ids :
        (/\ Created(p)
         /\ proposals[p].strategy = OWNER_ONLY
         /\ ~proposals[p].finalized
         /\ granted[p] = {}) =>
            \A a \in Accounts : ~HoldsSome(p, a)

\* ------------------------------------------------------------------ C14
\* C14: for a created QUALIFIED_ONLY proposal, an account holds a
\* persistent permission on a current counter or on the total only if it
\* was the target of a successful grantDecryptionPermission for the
\* proposal, and such a permission appears only in a step that is a
\* successful grantDecryptionPermission: vote and finalizeProposal create
\* none.
C14_QualifiedStandingAccess ==
    [][\A p \in Ids :
          (p < proposalCount' /\ proposals'[p].strategy = QUALIFIED_ONLY) =>
              \A a \in Accounts :
                  HoldsSome(p, a)' =>
                      /\ a \in granted'[p]
                      /\ ~HoldsSome(p, a) =>
                            last' = [op |-> "grantDecryptionPermission", err |-> OK]]_vars

\* on a finalized QUALIFIED_ONLY proposal both voters voted, Bob was granted
\* after the last vote and holds the permissions, Alice holds none
C14_Witness ==
    /\ Created(0)
    /\ proposals[0].strategy = QUALIFIED_ONLY
    /\ proposals[0].finalized
    /\ hasVotedClear[0][Alice] /\ hasVotedClear[0][Bob]
    /\ granted[0] = {Bob}
    /\ HoldsAll(0, Bob)
    /\ ~HoldsSome(0, Alice)

\* ------------------------------------------------------------------ C15
\* C15: a successful vote by a on a QUALIFIED_ONLY proposal leaves, for the
\* rest of that transaction, a transient permission for a on exactly the
\* optionCount counters and the total as that vote stored them; a successful
\* vote on a proposal of another strategy leaves none, a call that is not a
\* successful vote leaves none, and no transient permission survives into
\* the next transaction.
C15_QualifiedTransient ==
    [][/\ \A e \in transientAcl : e \notin transientAcl'
       /\ last' # [op |-> "vote", err |-> OK] => transientAcl' = {}
       /\ last' = [op |-> "vote", err |-> OK] =>
            \A p \in Ids, a \in Accounts :
                (~hasVotedClear[p][a] /\ hasVotedClear'[p][a]) =>
                    IF proposals[p].strategy = QUALIFIED_ONLY
                    THEN /\ transientAcl' = {[h |-> h, a |-> a] : h \in CurrentHandles(p)'}
                         /\ Cardinality(transientAcl') = proposals[p].optionCount + 1
                         /\ \A h \in CurrentHandles(p)' : h \notin CurrentHandles(p)
                    ELSE transientAcl' = {}]_vars

\* the second voter of a QUALIFIED_ONLY proposal has just voted and holds
\* the transient permissions on the four updated handles
C15_Witness ==
    /\ last = [op |-> "vote", err |-> OK]
    /\ Created(0)
    /\ proposals[0].strategy = QUALIFIED_ONLY
    /\ proposalResults[0].totalVotes.val = 2
    /\ Cardinality(transientAcl) = proposals[0].optionCount + 1
    /\ \E a \in Voters :
          transientAcl = {[h |-> h, a |-> a] : h \in CurrentHandles(0)}

\* ------------------------------------------------------------------ C16
\* C16: in every state (any lifecycle phase, any strategy)
\* grantDecryptionPermission succeeds exactly for a caller that is the
\* proposal's owner, the global owner or an administrator; any other caller
\* is rejected with "Not authorized" and no permission, storage or history
\* changes.
C16_GrantAuthorization ==
    [][last'.op = "grantDecryptionPermission" =>
         \A s \in Accounts, p \in Ids, t \in Accounts :
            grantDecryptionPermission(s, p, t) =>
                IF s = proposals[p].owner \/ s = owner \/ administrators[s]
                THEN /\ last'.err = OK
                     /\ \A h \in CurrentHandles(p) : [h |-> h, a |-> t] \in acl'
                ELSE /\ last'.err = "Not authorized"
                     /\ acl' = acl
                     /\ UNCHANGED contractState]_vars

\* Bob, neither owner nor administrator, has just been rejected on a
\* finalized proposal of Alice's which he had been granted access to while
\* he was an administrator
C16_Witness ==
    /\ last = [op |-> "grantDecryptionPermission", err |-> "Not authorized"]
    /\ Created(0)
    /\ proposals[0].owner = Alice
    /\ proposals[0].finalized
    /\ ~administrators[Bob]
    /\ Bob \in granted[0]

\* ------------------------------------------------------------------ C17
\* C17 (as claimed): an account that was granted decrypt permission on a
\* created proposal and holds it on every counter and the total the
\* getters return still holds it on every counter and the total they
\* return in the next state, whatever call is made.
C17_GrantDurable ==
    [][\A p \in Ids, a \in Accounts :
          (Created(p) /\ a \in granted[p] /\ HoldsAll(p, a)) => HoldsAll(p, a)']_vars

\* ------------------------------------------------------------------ C18
\* C18: a vote by a voter who could vote now (inside the window, not
\* finalized, guard flag unset) but whose proof is rejected reverts with
\* ProofVerificationFailed, changes no counter, flag or permission, and
\* leaves the voter able to vote; the same call with a valid proof is
\* accepted, sets the guard flag and adds exactly one to the total and to
\* the chosen option's counter.
C18_FailedProofRecoverable ==
    [][last'.op = "vote" =>
         \A p \in Ids, a \in Accounts :
            (Created(p) /\ requireVote(now, proposals[p], hasVotedClear[p][a], TRUE) = OK) =>
                \A o \in Choices :
                    /\ vote(a, p, o, FALSE) =>
                          /\ last'.err = "ProofVerificationFailed"
                          /\ UNCHANGED contractState
                          /\ requireVote(now', proposals'[p], hasVotedClear'[p][a], TRUE) = OK
                    /\ vote(a, p, o, TRUE) =>
                          /\ last'.err = OK
                          /\ hasVotedClear'[p][a]
                          /\ proposalResults'[p].totalVotes.val =
                                proposalResults[p].totalVotes.val + 1
                          /\ \A i \in 1 .. proposals[p].optionCount :
                                proposalResults'[p].optionVotes[i].val =
                                    proposalResults[p].optionVotes[i].val
                                        + (IF i - 1 = o THEN 1 ELSE 0)]_vars

\* a vote was just rejected for its proof while one voter has voted and the
\* other can still vote inside the window
C18_Witness ==
    /\ last = [op |-> "vote", err |-> "ProofVerificationFailed"]
    /\ Created(0)
    /\ now <= proposals[0].endTime
    /\ proposalResults[0].totalVotes.val = 1
    /\ \E a \in Voters : ~hasVotedClear[0][a]

\* ------------------------------------------------------------------ C19
\* C19: proposalCount is 0 after deployment; a successful createProposal
\* writes the proposal at id proposalCount (the id it returns), leaves the
\* proposals at all other ids as they are and raises proposalCount by one,
\* so the k-th success uses id k and no id is used twice; a call that fails
\* and a call that is not createProposal never change proposalCount.
C19_SequentialIds ==
    [][/\ last.op = "constructor" => proposalCount = 0
       /\ IF last' = [op |-> "createProposal", err |-> OK]
          THEN /\ proposalCount' = proposalCount + 1
               /\ proposals'[proposalCount].owner \in Accounts
               /\ proposals'[proposalCount].startTime = now
               /\ \A q \in Ids \ {proposalCount} :
                     /\ proposals'[q] = proposals[q]
                     /\ proposalResults'[q] = proposalResults[q]
               /\ \A q \in Ids : q < proposalCount => proposals[q].owner \in Accounts
               /\ \A q \in Ids : q >= proposalCount => proposals[q].owner = ZeroAddress
          ELSE proposalCount' = proposalCount]_vars

\* two proposals with ids 0 and 1 were created by different accounts at
\* different times, and a later createProposal was rejected
C19_Witness ==
    /\ proposalCount = 2
    /\ last = [op |-> "createProposal", err |-> "Invalid duration"]
    /\ proposals[0].owner = Alice
    /\ proposals[1].owner = Deployer
    /\ proposals[0].startTime < proposals[1].startTime

\* ------------------------------------------------------------------ C20
\* C20: a successful createProposal(optionCount, duration, strategy,
\* minQuorum) by sender at time now stores, at the id it allocates, a
\* proposal with startTime = now, endTime = now + duration, finalized =
\* false, owner = sender and the given optionCount, strategy and minQuorum,
\* and a tally of exactly optionCount counters and a total that all decrypt
\* to zero; no guard flag, clear or encrypted, is set for the new id.
C20_CreateEffect ==
    [][last' = [op |-> "createProposal", err |-> OK] =>
         /\ \E sender \in Accounts, in \in CreateInputs :
               createProposal(sender, in.optionCount, in.duration, in.strategy, in.minQuorum)
         /\ \A sender \in Accounts, in \in CreateInputs :
               createProposal(sender, in.optionCount, in.duration, in.strategy, in.minQuorum) =>
                  LET id == proposalCount
                      stored == proposals'[id]
                      tally == proposalResults'[id]
                  IN  /\ stored.startTime = now
                      /\ stored.endTime = now + in.duration
                      /\ stored.finalized = FALSE
                      /\ stored.owner = sender
                      /\ stored.optionCount = in.optionCount
                      /\ stored.strategy = in.strategy
                      /\ stored.minQuorum = in.minQuorum
                      /\ Len(tally.optionVotes) = in.optionCount
                      /\ \A i \in 1 .. in.optionCount : tally.optionVotes[i].val = 0
                      /\ tally.totalVotes.val = 0
                      /\ tally.totalVotes.h # NullHandle
                      /\ \A a \in Accounts :
                            /\ hasVotedClear'[id][a] = FALSE
                            /\ hasVoted'[id][a] = Uninit]_vars

\* Alice has just created, at now = 2, a proposal with 10 options that
\* lasts 365 days
C20_Witness ==
    /\ last = [op |-> "createProposal", err |-> OK]
    /\ now = 2
    /\ proposalCount = 1
    /\ proposals[0].owner = Alice
    /\ proposals[0].startTime = 2
    /\ proposals[0].endTime = 2 + maxDuration
    /\ Len(proposalResults[0].optionVotes) = maxOptionCount
    /\ SumVotes(proposalResults[0].optionVotes) = 0

\* ------------------------------------------------------------------ C21
\* C21: setProposer succeeds exactly for a caller that is an administrator
\* or the global owner and then sets the proposer flag of the account;
\* setAdministrator succeeds exactly for the global owner and then sets the
\* administrator flag; a rejected call leaves both tables (and everything
\* else) unchanged; no other call changes a role table; an account whose
\* proposer flag is set has its createProposal calls with valid parameters
\* accepted.
C21_RoleMutationGated ==
    [][/\ last'.op = "setProposer" =>
            \A s \in Accounts, a \in Accounts, st \in BOOLEAN :
                setProposer(s, a, st) =>
                    IF administrators[s] \/ s = owner
                    THEN /\ last'.err = OK
                         /\ proposers'[a] = st
                         /\ \A b \in Accounts \ {a} : proposers'[b] = proposers[b]
                         /\ administrators' = administrators
                    ELSE /\ last'.err = "Not administrator"
                         /\ UNCHANGED contractState
       /\ last'.op = "setAdministrator" =>
            \A s \in Accounts, a \in Accounts, st \in BOOLEAN :
                setAdministrator(s, a, st) =>
                    IF s = owner
                    THEN /\ last'.err = OK
                         /\ administrators'[a] = st
                         /\ \A b \in Accounts \ {a} : administrators'[b] = administrators[b]
                         /\ proposers' = proposers
                    ELSE /\ last'.err = "Not owner"
                         /\ UNCHANGED contractState
       /\ last'.op \notin {"setProposer", "setAdministrator"} =>
            /\ proposers' = proposers
            /\ administrators' = administrators
            /\ owner' = owner
       /\ last'.op = "createProposal" =>
            \A a \in Accounts, in \in RoleInputs :
                (/\ proposers[a]
                 /\ ValidCreate(in.optionCount, in.duration, in.minQuorum)
                 /\ createProposal(a, in.optionCount, in.duration, in.strategy, in.minQuorum))
                    => last'.err = OK /\ proposals'[proposalCount].owner = a]_vars

\* Bob, who was made an administrator and a proposer and then lost the
\* administrator role, owns the proposal he created and has just been
\* rejected by setProposer
C21_Witness ==
    /\ last = [op |-> "setProposer", err |-> "Not administrator"]
    /\ proposers[Bob]
    /\ ~administrators[Bob]
    /\ Created(0)
    /\ proposals[0].owner = Bob

\* ------------------------------------------------------------------ C22
\* C22: for a created proposal, title, description, startTime, endTime,
\* optionCount, owner, strategy and minQuorum are the same after every
\* step (vote, finalizeProposal, grantDecryptionPermission, role mutation,
\* createProposal, accepted or rejected); only finalized may change.
C22_ProposalImmutable ==
    [][\A p \in Ids :
          Created(p) =>
              /\ proposals'[p].title = proposals[p].title
              /\ proposals'[p].description = proposals[p].description
              /\ proposals'[p].startTime = proposals[p].startTime
              /\ proposals'[p].endTime = proposals[p].endTime
              /\ proposals'[p].optionCount = proposals[p].optionCount
              /\ proposals'[p].owner = proposals[p].owner
              /\ proposals'[p].strategy = proposals[p].strategy
              /\ proposals'[p].minQuorum = proposals[p].minQuorum
              /\ p < proposalCount']_vars

\* proposal 0, created at time 1, has been voted on, granted on and
\* finalized, a second proposal was created later, Bob's roles were changed,
\* and proposal 0 still has the fields it was created with
C22_Witness ==
    /\ proposalCount = 2
    /\ proposals[0].finalized
    /\ proposals[0].startTime = 1 /\ proposals[0].endTime = 2
    /\ proposals[0].owner = Alice
    /\ proposals[1].startTime > 1
    /\ hasVotedClear[0][Bob]
    /\ Bob \in granted[0]
    /\ administrators[Bob] /\ proposers[Bob]

\* ------------------------------------------------------------------ C23
\* the persistent permissions on the current counters and total of q
PermsOf(q) == {e \in acl : e.h \in CurrentHandles(q)}

\* the current counters and total of q that are publicly decryptable
PublicOf(q) == publicDecrypt \cap CurrentHandles(q)

\* C23: a vote, finalizeProposal or grantDecryptionPermission on id p
\* leaves, for every other created proposal q, the proposal record, the
\* counters and total, the guard flags and the permissions on its counters
\* as they were; and a voter whose guard flag is set for another proposal
\* and unset for q has a vote on q with a valid proof accepted whenever q is
\* inside its window and not finalized.
C23_CrossProposalIndependence ==
    [][/\ (/\ last'.op \in {"vote", "finalizeProposal", "grantDecryptionPermission"}
           /\ last'.err # OK) => UNCHANGED contractState
       /\ (/\ last'.op \in {"vote", "finalizeProposal", "grantDecryptionPermission"}
           /\ last'.err = OK) =>
             \A p \in Ids :
                (\/ /\ last'.op = "vote"
                    /\ \E a \in Accounts, o \in Choices : vote(a, p, o, TRUE)
                 \/ /\ last'.op = "finalizeProposal"
                    /\ \E s \in Accounts : finalizeProposal(s, p)
                 \/ /\ last'.op = "grantDecryptionPermission"
                    /\ \E s \in Accounts, t \in Accounts : grantDecryptionPermission(s, p, t))
                => \A q \in Ids \ {p} :
                      Created(q) =>
                         /\ proposals'[q] = proposals[q]
                         /\ proposalResults'[q] = proposalResults[q]
                         /\ hasVotedClear'[q] = hasVotedClear[q]
                         /\ hasVoted'[q] = hasVoted[q]
                         /\ PermsOf(q)' = PermsOf(q)
                         /\ PublicOf(q)' = PublicOf(q)
       /\ last'.op = "vote" =>
             \A p \in Ids, a \in Accounts :
                  (/\ Created(p)
                   /\ \E q \in Ids \ {p} : hasVotedClear[q][a]
                   /\ ~hasVotedClear[p][a]
                   /\ now <= proposals[p].endTime
                   /\ \E o \in Choices : vote(a, p, o, TRUE))
                      => last'.err = OK /\ hasVotedClear'[p][a]]_vars

\* Alice voted once on each of two proposals; proposal 0 is finalized and
\* Bob was granted on it, proposal 1 is neither
C23_Witness ==
    /\ proposalCount = 2
    /\ hasVotedClear[0][Alice] /\ hasVotedClear[1][Alice]
    /\ proposalResults[0].totalVotes.val = 1
    /\ proposalResults[1].totalVotes.val = 1
    /\ proposals[0].finalized /\ ~proposals[1].finalized
    /\ HoldsAll(0, Bob) /\ ~HoldsSome(1, Bob)

\* ------------------------------------------------------------------ C24
\* the status of stored proposal p at time t
StatusAt(p, t) ==
    getProposalStatus(proposals[p].startTime, proposals[p].endTime,
                      proposals[p].finalized, t)

\* C24: for all startTime, endTime, finalized and now (all small values,
\* and the stored proposals at and around their own bounds) the status
\* function returns exactly one of the four values: finalized iff
\* finalized; upcoming iff not finalized and now < startTime; ended iff not
\* finalized, now >= startTime and now > endTime; active iff not finalized
\* and startTime <= now <= endTime, so now = startTime and now = endTime are
\* active.
C24_StatusFunction ==
    /\ \A st \in 0 .. MaxTime, en \in 0 .. MaxTime, f \in BOOLEAN, t \in 0 .. MaxTime + 1 :
          LET r == getProposalStatus(st, en, f, t)
          IN  /\ r \in {"finalized", "upcoming", "ended", "active"}
              /\ (r = "finalized") <=> f
              /\ (r = "upcoming") <=> (~f /\ t < st)
              /\ (r = "ended") <=> (~f /\ t >= st /\ t > en)
              /\ (r = "active") <=> (~f /\ st <= t /\ t <= en)
    /\ \A p \in Ids :
          LET pr == proposals[p]
          IN  IF pr.finalized
              THEN \A t \in {pr.startTime - 1, pr.startTime, pr.endTime, pr.endTime + 1, now} :
                      StatusAt(p, t) = "finalized"
              ELSE /\ StatusAt(p, pr.startTime - 1) = "upcoming"
                   /\ StatusAt(p, pr.startTime) = "active"
                   /\ StatusAt(p, pr.endTime) = "active"
                   /\ StatusAt(p, pr.endTime + 1) = "ended"
                   /\ StatusAt(p, now) = (IF now > pr.endTime THEN "ended" ELSE "active")

\* an open proposal at the last second of its window: active now, ended one
\* second later
C24_Witness ==
    /\ Created(0)
    /\ ~proposals[0].finalized
    /\ now = proposals[0].endTime
    /\ StatusAt(0, now) = "active"
    /\ StatusAt(0, now + 1) = "ended"
    /\ proposalResults[0].totalVotes.val = 1

\* ------------------------------------------------------------------ C26
\* C26: for every created proposal and every time t (small values and the
\* proposal's own bounds), the lifecycle requires of vote pass exactly when
\* the status at t is active, and the requires of finalizeProposal pass
\* exactly when it is ended; so they never pass together, and at t = endTime
\* of an open proposal vote passes and finalizeProposal is rejected.  At the
\* current time the same holds of the checks the calls make.
C26_GatesAgreeWithStatus ==
    \A p \in Ids :
        Created(p) =>
            /\ \A t \in (0 .. MaxTime + 1) \cup
                        {proposals[p].startTime - 1, proposals[p].endTime,
                         proposals[p].endTime + 1} :
                  /\ (requireVote(t, proposals[p], FALSE, TRUE) = OK)
                        <=> (StatusAt(p, t) = "active")
                  /\ (requireFinalize(t, proposals[p]) = OK)
                        <=> (StatusAt(p, t) = "ended")
                  /\ ~(/\ requireVote(t, proposals[p], FALSE, TRUE) = OK
                       /\ requireFinalize(t, proposals[p]) = OK)
            /\ ~proposals[p].finalized =>
                  /\ requireVote(proposals[p].endTime, proposals[p], FALSE, TRUE) = OK
                  /\ requireFinalize(proposals[p].endTime, proposals[p]) = "Voting not ended"
            /\ \A a \in Accounts :
                  ~hasVotedClear[p][a] =>
                      ((voteRevert(p, a, TRUE) = OK) <=> (StatusAt(p, now) = "active"))
            /\ (finalizeProposalRevert(p) = OK) <=> (StatusAt(p, now) = "ended")

\* at now = endTime of an open proposal a finalizeProposal has just been
\* rejected while a voter who has not voted would be accepted
C26_Witness ==
    /\ last = [op |-> "finalizeProposal", err |-> "Voting not ended"]
    /\ Created(0)
    /\ now = proposals[0].endTime
    /\ ~proposals[0].finalized
    /\ \E a \in Voters : voteRevert(0, a, TRUE) = OK

\* ------------------------------------------------------------------ C25
\* C25: a vote by a caller whose guard flag is set for a created proposal
\* reverts with "Already voted" inside the window, whether its proof is
\* valid or not, and with "Voting ended" after endTime; the requires are
\* evaluated in the order start, end, finalized, guard, proof; and a vote
\* that reverts leaves every counter, handle, flag and permission as it was.
C25_CheckOrder ==
    [][last'.op = "vote" =>
         /\ last'.err # OK => UNCHANGED contractState
         /\ \A p \in Ids, a \in Accounts :
               (Created(p) /\ hasVotedClear[p][a]) =>
                  /\ \A pv \in BOOLEAN :
                        requireVote(now, proposals[p], TRUE, pv) =
                            (IF now > proposals[p].endTime THEN "Voting ended"
                             ELSE "Already voted")
                  /\ \A o \in Choices :
                        /\ (now <= proposals[p].endTime /\ vote(a, p, o, FALSE)) =>
                              last'.err = "Already voted"
                        /\ (now > proposals[p].endTime /\ vote(a, p, o, TRUE)) =>
                              last'.err = "Voting ended"]_vars

\* a second vote inside the window was rejected with "Already voted" while
\* both voters' flags are set
C25_Witness ==
    /\ last = [op |-> "vote", err |-> "Already voted"]
    /\ Created(0)
    /\ now <= proposals[0].endTime
    /\ \A a \in Voters : hasVotedClear[0][a]
    /\ proposalResults[0].totalVotes.val = 2

\* ------------------------------------------------------------------ C27
\* the plaintexts of the option counters of p
CounterValues(p) ==
    [i \in DOMAIN proposalResults[p].optionVotes |-> proposalResults[p].optionVotes[i].val]

\* C27: the clock never decreases, and once a created proposal is finalized
\* every vote on it reverts, and the plaintexts of its option counters and
\* of its total and its guard flags are the same in the next state, whatever
\* call is made.
C27_TallyFrozen ==
    [][/\ now' >= now
       /\ \A p \in Ids :
            (Created(p) /\ proposals[p].finalized) =>
                /\ proposals'[p].finalized
                /\ CounterValues(p)' = CounterValues(p)
                /\ proposalResults'[p].totalVotes.val = proposalResults[p].totalVotes.val
                /\ hasVotedClear'[p] = hasVotedClear[p]
                /\ hasVoted'[p] = hasVoted[p]
                /\ (/\ last'.op = "vote"
                    /\ \E a \in Accounts, o \in Choices, pv \in BOOLEAN : vote(a, p, o, pv))
                      => last'.err # OK]_vars

\* a vote by a voter who has not voted was rejected on a finalized proposal
\* that holds one accepted vote
C27_Witness ==
    /\ last.op = "vote"
    /\ last.err # OK
    /\ Created(0)
    /\ proposals[0].finalized
    /\ proposalResults[0].totalVotes.val = 1
    /\ \E a \in Voters : ~hasVotedClear[0][a]

\* ------------------------------------------------------------------ C28
\* no counter or total of a created proposal that is not finalized is
\* publicly decryptable, none of an OWNER_ONLY or QUALIFIED_ONLY proposal
\* ever is, and on a PUBLIC_AFTER_END proposal that is not finalized only
\* targets of grantDecryptionPermission hold a permission
NoEarlyDisclosure ==
    \A p \in Ids :
        Created(p) =>
            /\ ~proposals[p].finalized => PublicOf(p) = {}
            /\ proposals[p].strategy # PUBLIC_AFTER_END => PublicOf(p) = {}
            /\ (proposals[p].strategy = PUBLIC_AFTER_END /\ ~proposals[p].finalized) =>
                  \A a \in Accounts : HoldsSome(p, a) => a \in granted[p]

\* C28: NoEarlyDisclosure holds after every step, and an accepted vote on a
\* created PUBLIC_AFTER_END proposal gives no account a permission on a
\* counter or a total, marks nothing publicly decryptable and leaves no
\* transient permission.
C28_NoEarlyDisclosure ==
    [][/\ NoEarlyDisclosure'
       /\ (last'.op = "vote" /\ last'.err = OK) =>
             \A p \in Ids :
                (/\ Created(p)
                 /\ proposals[p].strategy = PUBLIC_AFTER_END
                 /\ \E a \in Accounts, o \in Choices : vote(a, p, o, TRUE)) =>
                    /\ publicDecrypt' = publicDecrypt
                    /\ transientAcl' = {}
                    /\ \A e \in acl' :
                          (e.a \in Accounts /\ e.h.kind \in {"opt", "tot"}) => e \in acl]_vars

\* a finalized OWNER_ONLY or QUALIFIED_ONLY proposal with an accepted vote
\* and no public counter, and nothing public anywhere
C28_Witness ==
    /\ Created(0)
    /\ proposals[0].strategy # PUBLIC_AFTER_END
    /\ proposals[0].finalized
    /\ proposalResults[0].totalVotes.val >= 1
    /\ PublicOf(0) = {}

\* ------------------------------------------------------------------ C29
\* C29: finalizeProposal on a created proposal that is not finalized, at
\* now > endTime, succeeds whatever the number of accepted votes, and the
\* step is the same for every caller; the outcome of the requires of
\* finalizeProposal and of vote is the same for every value of minQuorum.
C29_QuorumAndCallerFree ==
    [][/\ last'.op = "finalizeProposal" =>
            \A p \in Ids :
                /\ (/\ Created(p)
                    /\ ~proposals[p].finalized
                    /\ now > proposals[p].endTime
                    /\ \E s \in Accounts : finalizeProposal(s, p)) =>
                       /\ last'.err = OK
                       /\ proposals'[p].finalized
                       /\ proposals'[p].minQuorum = proposals[p].minQuorum
                       /\ \A s \in Accounts : finalizeProposal(s, p)
                /\ \A q \in 0 .. 3 :
                      requireFinalize(now, [proposals[p] EXCEPT !.minQuorum = q])
                          = finalizeProposalRevert(p)
       /\ last'.op = "vote" =>
            \A p \in Ids, q \in 0 .. 3, a \in Accounts, pv \in BOOLEAN :
                requireVote(now, [proposals[p] EXCEPT !.minQuorum = q],
                            hasVotedClear[p][a], pv) = voteRevert(p, a, pv)]_vars

\* a proposal with minQuorum 2 was finalized with no accepted vote
C29_Witness ==
    /\ last = [op |-> "finalizeProposal", err |-> OK]
    /\ Created(0)
    /\ proposals[0].finalized
    /\ proposals[0].minQuorum = 2
    /\ proposalResults[0].totalVotes.val = 0

\* ------------------------------------------------------------------ C30
\* enabled, provider and chainId are all set
ParamsSet == enabled /\ provider # Undefined /\ chainId # NoChainId

\* C30 (as claimed): whenever enabled, provider and chainId are all set and
\* no instance creation is in flight, the hook is at "ready" with the
\* instance of the current provider or at "error": a creation for the
\* current parameters was started after every change and every re-run of
\* the effect, and the hook is never left at "idle" with them set.
C30_HookProgress ==
    (ParamsSet /\ pending = Undefined) =>
        \/ fhevmStatus = "ready" /\ instance = provider
        \/ fhevmStatus = "error"
====
